---------------------------- MODULE Spec2Model ----------------------------
(***************************************************************************)
(* A model of objexplore's application class ObjExploreApp                 *)
(* (src/venv/lib/python3.8/site-packages/objexplore/objexplore.py): the    *)
(* entry point explore(obj), the event loop ObjExploreApp.explore, the key *)
(* dispatch process_key_event, draw, error and the SIGWINCH handler.       *)
(*                                                                         *)
(* The Explorer, Stack, Filter, CachedObject and Overview classes live in  *)
(* sibling modules of the package (explorer.py, filter.py, ...) that are   *)
(* not part of the source tree; their operations are modelled from the     *)
(* natural-language specification (sections 3 and 4) and are marked so.    *)
(***************************************************************************)
EXTENDS Integers, Sequences, FiniteSets, TLC

(***************************************************************************)
(* Bounds of the model.                                                    *)
(***************************************************************************)
\* Most keys read in one session (the loop itself reads keys for ever).
MaxKeys == 5
\* Most descends in a row the push/pop property is stated for.
MaxDescends == 2

Max(x, y) == IF x >= y THEN x ELSE y
Min(x, y) == IF x <= y THEN x ELSE y

None == "None"

(***************************************************************************)
(* The explored object graph: the input of explore(obj).  "R" is the root  *)
(* object; R.a is an object "A" whose attribute a points back to R (a      *)
(* cycle) and whose attribute b is A itself; R.b is a function "F"         *)
(* (callable); R.c raises on access and is cached as the inaccessible      *)
(* placeholder "E"; "I" is a plain value.                                  *)
(***************************************************************************)
PublicAttrs(obj) ==
    CASE obj = "R" -> <<"a", "b", "c">>
      [] obj = "A" -> <<"a", "b">>
      [] OTHER     -> <<>>

PrivateAttrs(obj) ==
    CASE obj = "R" -> <<"_x">>
      [] OTHER     -> <<>>

Attr(obj, name) ==
    CASE obj = "R" /\ name = "a"  -> "A"
      [] obj = "R" /\ name = "b"  -> "F"
      [] obj = "R" /\ name = "c"  -> "E"
      [] obj = "R" /\ name = "_x" -> "I"
      [] obj = "A" /\ name = "a"  -> "R"
      [] obj = "A" /\ name = "b"  -> "A"
      [] OTHER                    -> None

\* callable(obj)
Callable(obj) == obj = "F"

\* The objects with navigable structure (spec 4.3, exploreSelectedObject).
Navigable(obj) == obj \in {"R", "A"}

RECURSIVE ObjAt(_)
\* The object a CachedObject node wraps; a node is named by its dotpath.
ObjAt(path) ==
    IF path = <<>> THEN "R"
    ELSE Attr(ObjAt(SubSeq(path, 1, Len(path) - 1)), path[Len(path)])

\* CachedObject child lists: computed once per node, never changed by filters.
Children(path, view) ==
    IF view = "public" THEN PublicAttrs(ObjAt(path)) ELSE PrivateAttrs(ObjAt(path))

(***************************************************************************)
(* Keys.  A printable key is the character itself; a key with a key code   *)
(* is named after blessed's code (key.code == term.KEY_ENTER, ...).        *)
(***************************************************************************)
CodeKeys == {"KEY_BACKSPACE", "KEY_ESCAPE", "KEY_ENTER", "KEY_LEFT",
             "KEY_RIGHT", "KEY_UP", "KEY_DOWN"}

\* "B" stands for a key no branch of process_key_event binds.
CharKeys == {"q", "Q", "r", "?", "f", "{", "}", "[", "]", "j", "k", "o", "n",
             " ", "g", "G", "l", "h", "/", "c", "+", "_", "-", "=", "d", "p",
             "O", "H", "i", "I", "B"}

Keys == CodeKeys \cup CharKeys

(***************************************************************************)
(* Filter matching (spec 4.2): case-insensitive substring match of the     *)
(* search text against the attribute name.                                 *)
(***************************************************************************)
NameChars(name) ==
    CASE name = "a"  -> <<"a">>
      [] name = "b"  -> <<"b">>
      [] name = "c"  -> <<"c">>
      [] name = "_x" -> <<"_", "x">>
      [] OTHER       -> <<>>

Lower(ch) ==
    CASE ch = "B" -> "b"
      [] ch = "Q" -> "q"
      [] ch = "G" -> "g"
      [] ch = "O" -> "o"
      [] ch = "H" -> "h"
      [] ch = "I" -> "i"
      [] OTHER    -> ch

LowerSeq(s) == [i \in 1..Len(s) |-> Lower(s[i])]

IsSubstring(t, s) ==
    \E i \in 0..(Len(s) - Len(t)) :
        \A j \in 1..Len(t) : s[i + j] = t[j]

Matches(text, name) == IsSubstring(LowerSeq(text), LowerSeq(NameChars(name)))

\* The displayed subset of a child list: order kept, nothing deleted.
Displayed(names, text, excluded) ==
    SelectSeq(names, LAMBDA n : n \notin excluded /\ Matches(text, n))

\* The active (public or private, post-filter) child list of the open node.
ActiveList(a) == Displayed(Children(a.cached_obj, a.state), a.search, a.excluded)

InBounds(a) == a.index >= 0 /\ a.index < Max(Len(ActiveList(a)), 1)

Clamp(i, len) == Max(0, Min(i, len - 1))

\* Explorer.selected_object: the CachedObject under the selection.
HasSelection(a) == a.index >= 0 /\ a.index < Len(ActiveList(a))
SelectedName(a) == IF HasSelection(a) THEN ActiveList(a)[a.index + 1] ELSE None
SelectedObj(a) ==
    IF HasSelection(a) THEN Attr(ObjAt(a.cached_obj), SelectedName(a)) ELSE None

(***************************************************************************)
(* The application state: one record `a` holding the fields of             *)
(* ObjExploreApp and of the Explorer, Stack, Filter and Overview objects   *)
(* it composes.                                                            *)
(*   cached_obj, index, state          Explorer: open node, selection, view*)
(*   stack, stack_visible, stack_index Stack and its browsing overlay      *)
(*   filter_visible, receiving_input, search, cursor_pos, committed,       *)
(*   excluded, filter_index            Filter                              *)
(*   help_visible, help_state          Overview.help_layout                *)
(*   overview_state, preview_state     Overview                            *)
(*   main_style                        ObjExploreApp.main_style            *)
(***************************************************************************)
error_style == "red"
main_style == "blue"

\* ObjExploreApp.__init__: the state after construction.
InitApp ==
    [cached_obj |-> <<>>, index |-> 0, state |-> "public",
     stack |-> <<>>, stack_visible |-> FALSE, stack_index |-> 0,
     filter_visible |-> FALSE, receiving_input |-> FALSE,
     search |-> <<>>, cursor_pos |-> 0, committed |-> <<>>,
     excluded |-> {}, filter_index |-> 0,
     help_visible |-> FALSE, help_state |-> "keybindings",
     overview_state |-> "all", preview_state |-> "repr",
     main_style |-> main_style]

(***************************************************************************)
(* Explorer (spec 4.3).                                                    *)
(***************************************************************************)
\* Explorer.live_update / clamping of the selection after the list shrinks.
live_update(a) == [a EXCEPT !.index = Clamp(a.index, Len(ActiveList(a)))]

reset_index(a) == [a EXCEPT !.index = 0]

move_up(a) == [a EXCEPT !.index = Max(a.index - 1, 0)]

move_down(a) == [a EXCEPT !.index = Clamp(a.index + 1, Len(ActiveList(a)))]

move_top(a) == [a EXCEPT !.index = 0]

move_bottom(a) == [a EXCEPT !.index = Clamp(Len(ActiveList(a)), Len(ActiveList(a)))]

\* Whether explore_selected_object descends.
CanDescend(a) == HasSelection(a) /\ Navigable(SelectedObj(a))

explore_selected_object(a) ==
    IF CanDescend(a)
    THEN [a EXCEPT !.stack = Append(a.stack, [node |-> a.cached_obj, index |-> a.index]),
                   !.cached_obj = Append(a.cached_obj, SelectedName(a)),
                   !.index = 0]
    ELSE a

explore_parent_obj(a) ==
    IF a.stack = <<>> THEN a
    ELSE LET top == a.stack[Len(a.stack)] IN
         [a EXCEPT !.cached_obj = top.node,
                   !.index = top.index,
                   !.stack = SubSeq(a.stack, 1, Len(a.stack) - 1),
                   !.stack_index = Clamp(a.stack_index, Len(a.stack) - 1)]

\* explore_selected_stack_object popping one entry whatever ancestor is chosen.
explore_selected_stack_object_SinglePop(a) ==
    IF a.stack_index >= 0 /\ a.stack_index < Len(a.stack)
    THEN LET e == a.stack[a.stack_index + 1] IN
         [a EXCEPT !.cached_obj = e.node,
                   !.index = e.index,
                   !.stack = SubSeq(a.stack, 1, Len(a.stack) - 1),
                   !.stack_index = Clamp(a.stack_index, Len(a.stack) - 1)]
    ELSE a

\* Jump to the ancestor under the stack view's cursor, truncating the stack.
explore_selected_stack_object(a) ==
    IF a.stack_index >= 0 /\ a.stack_index < Len(a.stack)
    THEN LET e == a.stack[a.stack_index + 1] IN
         [a EXCEPT !.cached_obj = e.node,
                   !.index = e.index,
                   !.stack = SubSeq(a.stack, 1, a.stack_index),
                   !.stack_index = Clamp(a.stack_index, a.stack_index)]
    ELSE a

(***************************************************************************)
(* Stack view (the stack-browsing overlay's cursor).                       *)
(***************************************************************************)
stack_set_visible(a) ==
    [a EXCEPT !.stack_visible = TRUE,
              !.stack_index = Clamp(Len(a.stack), Len(a.stack))]

stack_move_up(a) == [a EXCEPT !.stack_index = Max(a.stack_index - 1, 0)]

stack_move_down(a) == [a EXCEPT !.stack_index = Clamp(a.stack_index + 1, Len(a.stack))]

stack_move_top(a) == [a EXCEPT !.stack_index = 0]

stack_move_bottom(a) == [a EXCEPT !.stack_index = Clamp(Len(a.stack), Len(a.stack))]

(***************************************************************************)
(* Filter (spec 4.2).                                                      *)
(***************************************************************************)
InsertAt(s, i, ch) == SubSeq(s, 1, i) \o <<ch>> \o SubSeq(s, i + 1, Len(s))
RemoveAt(s, i) == SubSeq(s, 1, i - 1) \o SubSeq(s, i + 1, Len(s))

add_search_char(a, key) ==
    live_update([a EXCEPT !.search = InsertAt(a.search, a.cursor_pos, key),
                          !.cursor_pos = a.cursor_pos + 1])

backspace(a) ==
    IF a.cursor_pos = 0 THEN a
    ELSE live_update([a EXCEPT !.search = RemoveAt(a.search, a.cursor_pos),
                               !.cursor_pos = a.cursor_pos - 1])

cursor_left(a) == [a EXCEPT !.cursor_pos = Max(a.cursor_pos - 1, 0)]

cursor_right(a) == [a EXCEPT !.cursor_pos = Min(a.cursor_pos + 1, Len(a.search))]

end_search(a) ==
    [a EXCEPT !.committed = a.search, !.receiving_input = FALSE]

cancel_search(a) ==
    live_update([a EXCEPT !.search = a.committed,
                          !.cursor_pos = Len(a.committed),
                          !.receiving_input = FALSE])

\* The filter view lists the open node's children of the active view.
FilterItems(a) == Children(a.cached_obj, a.state)

filter_toggle(a) ==
    IF a.filter_index >= 0 /\ a.filter_index < Len(FilterItems(a))
    THEN LET n == FilterItems(a)[a.filter_index + 1] IN
         [a EXCEPT !.excluded = IF n \in a.excluded THEN a.excluded \ {n}
                                ELSE a.excluded \cup {n}]
    ELSE a

clear_filters(a) ==
    [a EXCEPT !.excluded = {}, !.search = <<>>, !.committed = <<>>,
              !.cursor_pos = 0]

filter_move_up(a) == [a EXCEPT !.filter_index = Max(a.filter_index - 1, 0)]

filter_move_down(a) ==
    [a EXCEPT !.filter_index = Clamp(a.filter_index + 1, Len(FilterItems(a)))]

filter_move_top(a) == [a EXCEPT !.filter_index = 0]

filter_move_bottom(a) ==
    [a EXCEPT !.filter_index = Clamp(Len(FilterItems(a)), Len(FilterItems(a)))]

(***************************************************************************)
(* Failures.  A call into an external collaborator (pager, editor, help,   *)
(* rich, the terminal) may raise; the fault is an input of the step.       *)
(*   "Reentrant"      RuntimeError("reentrant call inside <_io.Buffered    *)
(*                    Writer name='<stdout>'>"): a resize-triggered draw   *)
(*                    overlapped the write in flight                       *)
(*   "RuntimeError"   a RuntimeError with any other message                *)
(*   "StopIteration"  a StopIteration raised by the callee                 *)
(*   "Exception"      any other subclass of Exception                      *)
(***************************************************************************)
Faults == {"none", "Reentrant", "RuntimeError", "StopIteration", "Exception"}

\* What a call of process_key_event leaves: the state, the exception that
\* leaves it ("none": a normal return), whether the cursor is hidden, and
\* the exception a callee threw inside it (caught there or not).
Ret(a, exc, hidden, threw) ==
    [app |-> a, exc |-> exc, hidden |-> hidden, threw |-> threw]

\* ObjExploreApp.error: the flash's draw() may itself raise `drawfault`;
\* the last line assigns main_style to itself.
error(a, drawfault) ==
    LET red == [a EXCEPT !.main_style = error_style] IN
    IF drawfault # "none"
    THEN [app |-> red, exc |-> drawfault]
    ELSE [app |-> [red EXCEPT !.main_style = red.main_style], exc |-> "none"]

\* Lines 98-120: the filter is receiving search input.
InputCapture(a, key) ==
    CASE key = "KEY_BACKSPACE" -> backspace(a)
      [] key = "KEY_ESCAPE"    -> cancel_search(a)
      [] key = "KEY_ENTER"     -> end_search(a)
      [] key = "KEY_LEFT"      -> cursor_left(a)
      [] key = "KEY_RIGHT"     -> cursor_right(a)
      [] key \in {"KEY_UP", "KEY_DOWN"} -> a
      [] OTHER                 -> add_search_char(a, key)

\* Lines 122-123: the keys that raise StopIteration.
QuitKeys == {"q", "Q", "r"}

\* OpenInEditor without the try/except of lines 352-358.
OpenInEditor_Uncaught(a, fault, drawfault, hidden) ==
    LET ran == fault \in {"none", "Reentrant"}
        hid == IF ran THEN TRUE ELSE hidden
    IN  Ret(a, fault, hid, fault)

\* OpenInEditor without line 356: the cursor stays as the editor left it.
OpenInEditor_NoRehide(a, fault, drawfault, hidden) ==
    LET ran == fault \in {"none", "Reentrant"}
        hid == IF ran THEN FALSE ELSE hidden
    IN  IF fault = "none" THEN Ret(a, "none", hid, "none")
        ELSE LET e == error(a, drawfault) IN Ret(e.app, e.exc, hid, fault)

\* Lines 351-358: open the selected object's file in $EDITOR.  A fault other
\* than the re-entrant write is raised by getabsfile or subprocess.call
\* before the editor runs; the editor leaves the cursor shown and line 356
\* hides it again (the escape sequence is handed to the stream before the
\* flush a resize can interrupt).  Every Exception ends in error().
OpenInEditor(a, fault, drawfault, hidden) ==
    LET ran == fault \in {"none", "Reentrant"}
        hid == IF ran THEN TRUE ELSE hidden
    IN  IF fault = "none" THEN Ret(a, "none", hid, "none")
        ELSE LET e == error(a, drawfault) IN Ret(e.app, e.exc, hid, fault)

\* StartSearch without line 222: the stack overlay stays as it is.
StartSearch_KeepsStack(a) ==
    [a EXCEPT !.receiving_input = TRUE, !.filter_visible = TRUE]

\* StartSearch without line 224: the filter overlay stays as it is.
StartSearch_NoShow(a) ==
    [a EXCEPT !.stack_visible = FALSE, !.receiving_input = TRUE]

\* Lines 221-224: "/" enters live search input.
StartSearch(a) ==
    [a EXCEPT !.stack_visible = FALSE, !.receiving_input = TRUE,
              !.filter_visible = TRUE]

\* Lines 283-289: [ and ] switch between public and private attributes.
ToggleView(a) ==
    [a EXCEPT !.state = IF a.state = "public" THEN "private" ELSE "public"]

\* ToggleStack without line 172: the filter overlay stays as it is.
ToggleStack_KeepsFilter(a) ==
    IF a.stack_visible THEN [a EXCEPT !.stack_visible = FALSE]
    ELSE stack_set_visible(a)

\* Lines 168-175: "o" opens or closes the stack overlay.
ToggleStack(a) ==
    IF a.stack_visible THEN [a EXCEPT !.stack_visible = FALSE]
    ELSE IF a.filter_visible
         THEN stack_set_visible([a EXCEPT !.filter_visible = FALSE])
    ELSE stack_set_visible(a)

\* StackTakes without the branches of lines 188-202.
StackTakes_NoMoves(a, key) ==
    \/ key = "o"
    \/ /\ a.stack_visible
       /\ key \in {"KEY_BACKSPACE", "KEY_ESCAPE", " ", "KEY_ENTER",
                   "l", "[", "]", "{", "}", "h"}

\* Lines 168-208: the keys a branch of the stack section takes.
StackTakes(a, key) ==
    \/ key = "o"
    \/ /\ a.stack_visible
       /\ key \in {"KEY_BACKSPACE", "KEY_ESCAPE", " ", "KEY_ENTER",
                   "j", "KEY_DOWN", "k", "KEY_UP", "g", "G",
                   "l", "[", "]", "{", "}", "h"}

\* Lines 168-208: what the stack section does with a key it takes.
StackSection(a, key) ==
    IF key = "o" THEN ToggleStack(a)
    ELSE IF key \in {"KEY_BACKSPACE", "KEY_ESCAPE"} THEN [a EXCEPT !.stack_visible = FALSE]
    ELSE IF key \in {" ", "KEY_ENTER"} THEN explore_selected_stack_object(a)
    ELSE IF key \in {"j", "KEY_DOWN"} THEN stack_move_down(a)
    ELSE IF key \in {"k", "KEY_UP"} THEN stack_move_up(a)
    ELSE IF key = "g" THEN stack_move_top(a)
    ELSE IF key = "G" THEN stack_move_bottom(a)
    \* disable these keys when the stack explorer is visible
    ELSE a

\* Lines 212-219: "n" opens or closes the filter overlay.
ToggleFilter(a) ==
    IF a.filter_visible THEN [a EXCEPT !.filter_visible = FALSE]
    ELSE IF a.stack_visible
         THEN [a EXCEPT !.stack_visible = FALSE, !.filter_visible = TRUE]
    ELSE [a EXCEPT !.filter_visible = TRUE]

\* Lines 212-254: the keys a branch of the filter section takes.
FilterTakes(a, key) ==
    \/ key \in {"n", "c"}
    \/ key = "/" /\ ~a.receiving_input
    \/ /\ a.filter_visible
       /\ key \in {" ", "KEY_ENTER", "KEY_ESCAPE", "KEY_BACKSPACE",
                   "j", "KEY_DOWN", "k", "KEY_UP", "g", "G"}

\* Lines 212-254: what the filter section does with a key it takes.
FilterSection(a, key) ==
    IF key = "n" THEN ToggleFilter(a)
    ELSE IF key = "/" THEN StartSearch(a)
    ELSE IF key \in {" ", "KEY_ENTER"} THEN reset_index(filter_toggle(a))
    ELSE IF key \in {"KEY_ESCAPE", "KEY_BACKSPACE"} THEN [a EXCEPT !.filter_visible = FALSE]
    ELSE IF key \in {"j", "KEY_DOWN"} THEN filter_move_down(a)
    ELSE IF key \in {"k", "KEY_UP"} THEN filter_move_up(a)
    ELSE IF key = "g" THEN filter_move_top(a)
    ELSE IF key = "G" THEN filter_move_bottom(a)
    ELSE clear_filters(a)

\* Lines 258-298: the keys a branch of the explorer section takes.
ExplorerTakes(a, key) ==
    \/ key \in {"k", "KEY_UP", "j", "KEY_DOWN", "l", "KEY_ENTER", "KEY_RIGHT",
                "g", "G", "[", "]", "+", "_", "-", "="}
    \/ key \in {"h", "KEY_LEFT"} /\ a.stack # <<>>

\* ExplorerSection with the branch of lines 272-275 doing nothing.
ExplorerSection_NoAscend(a, key) ==
    IF key \in {"k", "KEY_UP"} THEN move_up(a)
    ELSE IF key \in {"j", "KEY_DOWN"} THEN move_down(a)
    ELSE IF key \in {"l", "KEY_ENTER", "KEY_RIGHT"} THEN explore_selected_object(a)
    ELSE IF key \in {"h", "KEY_LEFT"} THEN a
    ELSE IF key = "g" THEN move_top(a)
    ELSE IF key = "G" THEN move_bottom(a)
    ELSE IF key \in {"[", "]"} THEN ToggleView(a)
    ELSE a

\* Lines 258-298: what the explorer section does with a key it takes.
ExplorerSection(a, key) ==
    IF key \in {"k", "KEY_UP"} THEN move_up(a)
    ELSE IF key \in {"j", "KEY_DOWN"} THEN move_down(a)
    ELSE IF key \in {"l", "KEY_ENTER", "KEY_RIGHT"} THEN explore_selected_object(a)
    ELSE IF key \in {"h", "KEY_LEFT"} THEN explore_parent_obj(a)
    ELSE IF key = "g" THEN move_top(a)
    ELSE IF key = "G" THEN move_bottom(a)
    ELSE IF key \in {"[", "]"} THEN ToggleView(a)
    \* + - _ = change Explorer.extra_width, a layout offset the model leaves out
    ELSE a

\* Lines 302-309: { and } switch the preview of a callable selection.
TogglePreview(a) ==
    IF ~Callable(SelectedObj(a)) THEN a
    ELSE [a EXCEPT !.preview_state = IF a.preview_state = "repr"
                                      THEN "source" ELSE "repr"]

\* Lines 302-379: the overview section and the keys that call out.
OverviewSection(a, key, fault, drawfault, hidden) ==
    LET ok(b) == Ret(b, "none", hidden, "none")
        call(b) == Ret(b, fault, hidden, fault)
    IN
    IF key \in {"{", "}"} THEN ok(TogglePreview(a))
    ELSE IF key = "d" THEN
        ok([a EXCEPT !.overview_state = IF a.overview_state # "docstring"
                                         THEN "docstring" ELSE "all"])
    ELSE IF key = "p" THEN
        ok([a EXCEPT !.overview_state = IF a.overview_state # "value"
                                         THEN "value" ELSE "all"])
    ELSE IF key = "f" THEN call(a)
    ELSE IF key = "O" THEN OpenInEditor(a, fault, drawfault, hidden)
    ELSE IF key \in {"H", "i", "I"} THEN call(a)
    ELSE ok(a)

\* Lines 168-379: the elif chain after the help page.
Dispatch(a, key, fault, drawfault, hidden) ==
    LET ok(b) == Ret(b, "none", hidden, "none") IN
    IF StackTakes(a, key) THEN ok(StackSection(a, key))
    ELSE IF FilterTakes(a, key) THEN ok(FilterSection(a, key))
    ELSE IF ExplorerTakes(a, key) THEN ok(ExplorerSection(a, key))
    ELSE OverviewSection(a, key, fault, drawfault, hidden)

\* HelpAndDispatch without the else: return of lines 159-160: a key the
\* help page does not bind closes the page and is processed.
HelpAndDispatch_NoSwallow(a, key, fault, drawfault, hidden) ==
    LET ok(b) == Ret(b, "none", hidden, "none")
        closed == [a EXCEPT !.help_visible = FALSE]
    IN
    IF a.help_visible /\ key \in {"?", "KEY_ESCAPE", "KEY_BACKSPACE"} THEN ok(closed)
    ELSE IF a.help_visible /\ key = "f" THEN Ret(a, fault, hidden, fault)
    ELSE IF a.help_visible /\ key \in {"{", "}", "[", "]"} THEN
        ok([a EXCEPT !.help_state = IF a.help_state = "keybindings"
                                     THEN "about" ELSE "keybindings"])
    ELSE LET b == IF a.help_visible THEN closed ELSE a IN
         IF key = "?" /\ ~b.help_visible THEN ok([b EXCEPT !.help_visible = TRUE])
         ELSE Dispatch(b, key, fault, drawfault, hidden)

\* Lines 127-164: the help page, then the rest of the chain.
HelpAndDispatch(a, key, fault, drawfault, hidden) ==
    LET ok(b) == Ret(b, "none", hidden, "none")
        closed == [a EXCEPT !.help_visible = FALSE]
    IN
    IF a.help_visible /\ key \in {"?", "KEY_ESCAPE", "KEY_BACKSPACE"} THEN ok(closed)
    ELSE IF a.help_visible /\ key = "f" THEN Ret(a, fault, hidden, fault)
    ELSE IF a.help_visible /\ key \in {"{", "}", "[", "]"} THEN
        ok([a EXCEPT !.help_state = IF a.help_state = "keybindings"
                                     THEN "about" ELSE "keybindings"])
    ELSE IF a.help_visible /\ key \notin {"j", "k", "o", "n", "KEY_UP", "KEY_DOWN"}
    THEN ok(a)
    ELSE LET b == IF a.help_visible THEN closed ELSE a IN
         IF key = "?" /\ ~b.help_visible THEN ok([b EXCEPT !.help_visible = TRUE])
         ELSE Dispatch(b, key, fault, drawfault, hidden)

\* process_key_event with the quit keys tested before the input capture.
process_key_event_QuitFirst(a, key, fault, drawfault, hidden) ==
    IF key \in QuitKeys THEN Ret(a, "StopIteration", hidden, "none")
    ELSE IF a.receiving_input
         THEN Ret(InputCapture(a, key), "none", hidden, "none")
    ELSE HelpAndDispatch(a, key, fault, drawfault, hidden)

\* ObjExploreApp.process_key_event
process_key_event(a, key, fault, drawfault, hidden) ==
    IF a.receiving_input THEN Ret(InputCapture(a, key), "none", hidden, "none")
    ELSE IF key \in QuitKeys THEN Ret(a, "StopIteration", hidden, "none")
    ELSE HelpAndDispatch(a, key, fault, drawfault, hidden)

(***************************************************************************)
(* The session: explore(obj) and ObjExploreApp.explore.                    *)
(*   pc             where the main thread is                               *)
(*                    "call"      explore(obj) entered (line 442)          *)
(*                    "setup"     lines 66-68: clear, cbreak, hide cursor  *)
(*                    "loop"      lines 69-88: in the event loop, at the   *)
(*                                top of an iteration or blocked on a key  *)
(*                                (draw changes nothing of the state)      *)
(*                    "teardown"  lines 68 (exit) and 91                   *)
(*                    "returned"  app.explore() returned res               *)
(*                    "reported"  lines 448-461 printed the diagnostic     *)
(*                    "raised"    the failure went to explore's caller     *)
(*   app            the application state                                  *)
(*   cursor_hidden  the terminal's cursor                                  *)
(*   key_r          key == "r" for explore's local `key` (line 86)         *)
(*   res            explore's local `res`                                  *)
(*   result         what explore(obj) gave its caller                      *)
(*   diag           the diagnostic of lines 449-461 was printed            *)
(*   handler        the SIGWINCH disposition: "default" or "draw"          *)
(*   late_draw      draw ran for a resize after the session had ended      *)
(*   nkeys          history: the number of keys read so far                *)
(*   cause          history: where the exception that ended the loop was   *)
(*                  raised, and what it was                                *)
(***************************************************************************)
VARIABLES pc, app, cursor_hidden, key_r, res, result, diag, handler,
          late_draw, nkeys, cause

vars == <<pc, app, cursor_hidden, key_r, res, result, diag, handler,
          late_draw, nkeys, cause>>

NoCause == [at |-> "none", exc |-> "none"]

Init ==
    /\ pc = "call"
    /\ app = InitApp
    /\ cursor_hidden = FALSE
    /\ key_r = FALSE
    /\ res = None
    /\ result = None
    /\ diag = FALSE
    /\ handler = "default"
    /\ late_draw = FALSE
    /\ nkeys = 0
    /\ cause = NoCause

\* A re-entrant write needs the resize handler to be installed.
Possible(fault) == fault = "Reentrant" => handler = "draw"

\* What the loop's except clauses (lines 75-88) do with an exception that
\* leaves draw, inkey or process_key_event: "continue" the loop, "break"
\* out of it, or let the exception "escape" from app.explore().
LoopExcept(exc) ==
    CASE exc = "none"          -> "continue"
      [] exc = "Reentrant"     -> "continue"
      [] exc = "StopIteration" -> "break"
      [] OTHER                 -> "escape"

\* BreakResult with the test of line 86 lost: nothing is ever returned.
BreakResult_NeverObject(a, isr) == None

\* Line 86-87: the result of a break.
BreakResult(a, isr) == IF isr THEN SelectedObj(a) ELSE None

\* Lines 445-461: an exception leaving app.explore() passes the with block
\* (the cursor is restored), is caught by explore, and the diagnostic is
\* printed; explore then returns nothing.
Escape(where, exc) ==
    /\ pc' = "reported"
    /\ cursor_hidden' = FALSE
    /\ diag' = TRUE
    /\ result' = None
    /\ cause' = [at |-> where, exc |-> exc]

\* Lines 442-444 and ObjExploreApp.__init__: outside explore's try block.
\* The model is of a platform with SIGWINCH: line 53 installs the handler.
Construct(fault) ==
    /\ pc = "call"
    /\ IF fault # "none"
       THEN /\ pc' = "raised"
            /\ cause' = [at |-> "construct", exc |-> fault]
            /\ UNCHANGED <<app, handler>>
       ELSE /\ pc' = "setup"
            /\ app' = InitApp
            /\ handler' = "draw"
            /\ UNCHANGED cause
    /\ UNCHANGED <<cursor_hidden, key_r, res, result, diag, late_draw, nkeys>>

\* Lines 66-68: clear the screen, enter cbreak and hidden_cursor.
Setup(fault) ==
    /\ pc = "setup"
    /\ Possible(fault)
    /\ IF fault = "none"
       THEN /\ pc' = "loop"
            /\ cursor_hidden' = TRUE
            /\ UNCHANGED <<diag, result, cause>>
       ELSE Escape("setup", fault)
    /\ UNCHANGED <<app, key_r, res, handler, late_draw, nkeys>>

\* Line 71 raising: a draw that succeeds changes nothing and leads to inkey.
DrawFails(fault) ==
    /\ pc = "loop"
    /\ fault # "none"
    /\ Possible(fault)
    /\ LET todo == LoopExcept(fault) IN
       CASE todo = "continue" ->
              /\ pc' = "loop"
              /\ UNCHANGED <<cursor_hidden, res, diag, result, cause>>
         [] todo = "break" ->
              /\ pc' = "teardown"
              /\ res' = BreakResult(app, key_r)
              /\ cause' = [at |-> "draw", exc |-> fault]
              /\ UNCHANGED <<cursor_hidden, diag, result>>
         [] OTHER ->
              /\ Escape("draw", fault)
              /\ UNCHANGED res
    /\ UNCHANGED <<app, key_r, handler, late_draw, nkeys>>

\* The faults a key's handler can meet: only the branches that call out.
CallKeys == {"f", "O", "H", "i", "I"}

FaultsFit(key, fault, drawfault) ==
    /\ Possible(fault) /\ Possible(drawfault)
    /\ fault # "none" => key \in CallKeys
    /\ drawfault # "none" => (key = "O" /\ fault # "none")

\* The printable keys the model types while the filter captures input (the
\* code appends any key without a code it handles).
TypedChars == {"q", "r", "B", "c"}

Typed(a, key) ==
    (a.receiving_input /\ key \notin CodeKeys) => key \in TypedChars

\* Lines 71-73 with a draw that succeeds, and the except clauses.
KeyPress(key, fault, drawfault) ==
    /\ pc = "loop"
    /\ FaultsFit(key, fault, drawfault)
    /\ LET r == process_key_event(app, key, fault, drawfault, cursor_hidden)
           todo == LoopExcept(r.exc)
           where == IF key \in QuitKeys /\ ~app.receiving_input
                    THEN "quit" ELSE "key"
       IN
       /\ nkeys < MaxKeys
       /\ Typed(app, key)
       /\ nkeys' = nkeys + 1
       /\ app' = r.app
       /\ key_r' = (key = "r")
       /\ CASE todo = "continue" ->
                /\ pc' = "loop"
                /\ cursor_hidden' = r.hidden
                /\ UNCHANGED <<res, diag, result, cause>>
            [] todo = "break" ->
                /\ pc' = "teardown"
                /\ cursor_hidden' = r.hidden
                /\ res' = BreakResult(r.app, key = "r")
                /\ cause' = [at |-> where, exc |-> r.exc]
                /\ UNCHANGED <<diag, result>>
            [] OTHER ->
                /\ Escape("key", r.exc)
                /\ UNCHANGED res
    /\ UNCHANGED <<handler, late_draw>>

\* Leaving the with block restores the cursor; line 91 shows it again;
\* line 93 returns res.
Teardown(fault) ==
    /\ pc = "teardown"
    /\ Possible(fault)
    /\ IF fault = "none"
       THEN /\ pc' = "returned"
            /\ cursor_hidden' = FALSE
            /\ result' = res
            /\ UNCHANGED <<diag, cause>>
       ELSE Escape("teardown", fault)
    /\ UNCHANGED <<app, key_r, res, handler, late_draw, nkeys>>

\* SIGWINCH while no write is in flight: the handler (draw) runs to its
\* end and changes nothing.  __init__ installs it and nothing removes it.
Resize ==
    /\ handler = "draw"
    /\ pc \in {"loop", "returned", "reported"}
    /\ late_draw' = (late_draw \/ pc \in {"returned", "reported"})
    /\ UNCHANGED <<pc, app, cursor_hidden, key_r, res, result, diag, handler,
                   nkeys, cause>>

Next ==
    \/ \E fault \in {"none", "Exception"} : Construct(fault)
    \/ \E fault \in {"none", "Reentrant"} : Setup(fault)
    \/ \E fault \in Faults : DrawFails(fault)
    \/ \E key \in Keys, fault \in Faults, drawfault \in Faults :
           KeyPress(key, fault, drawfault)
    \/ \E fault \in {"none", "Reentrant"} : Teardown(fault)
    \/ Resize

Spec == Init /\ [][Next]_vars

(***************************************************************************)
(* Properties.                                                             *)
(***************************************************************************)
Ended == pc \in {"returned", "reported", "raised"}

\* process_key_event on the current state.
Processed(key, fault, drawfault) ==
    process_key_event(app, key, fault, drawfault, cursor_hidden)

\* C1: outside filter-input capture, q and Q end the loop with nothing to
\* return and r ends it with the selected object, whatever overlay is
\* visible; explore hands the loop's result to its caller, and after q or Q
\* the entry point gives nothing.
C1_QuitAndReturn ==
    /\ (pc = "loop" /\ ~app.receiving_input) =>
         \A key \in {"q", "Q", "r"}, fault \in Faults :
            LET r == Processed(key, fault, "none") IN
            /\ LoopExcept(r.exc) = "break"
            /\ BreakResult(r.app, key = "r") =
                 IF key = "r" THEN SelectedObj(app) ELSE None
    /\ (pc \in {"teardown", "returned"} /\ cause.at = "quit") =>
         res = IF key_r THEN SelectedObj(app) ELSE None
    /\ pc = "returned" => result = res
    /\ (Ended /\ cause.at = "quit" /\ ~key_r) => result = None

\* r pressed with the help and the stack overlay visible returned R.b.
C1_Witness ==
    /\ pc = "returned" /\ cause.at = "quit" /\ key_r
    /\ result = "F"
    /\ app.help_visible /\ app.stack_visible

\* C2 as stated: at most one of filter input, help overlay and stack
\* overlay holds while the loop runs.
C2_MutuallyExclusive ==
    pc = "loop" =>
        /\ ~(app.receiving_input /\ app.help_visible)
        /\ ~(app.receiving_input /\ app.stack_visible)
        /\ ~(app.help_visible /\ app.stack_visible)

\* C2 amended: filter-input capture excludes the help overlay and the stack
\* overlay; the help overlay and the stack overlay may be visible together.
C2_InputExcludesOverlays ==
    /\ ~(app.receiving_input /\ app.help_visible)
    /\ ~(app.receiving_input /\ app.stack_visible)

\* The filter captures input after the stack was entered and browsed.
C2_Witness ==
    /\ pc = "loop" /\ app.receiving_input
    /\ app.stack # <<>> /\ ~app.stack_visible /\ ~app.help_visible
    /\ app.search # <<>>

\* The fields C3 says a captured key leaves alone.
OutsideFilter(a) ==
    <<a.help_visible, a.help_state, a.stack_visible, a.stack_index,
      a.cached_obj, a.stack, a.state, a.overview_state, a.preview_state,
      a.main_style>>

\* C3: while the filter receives search input every key is handled by the
\* filter alone: the loop goes on, and the overlays, the open node, the
\* navigation stack, the view mode and the overview modes stay as they are.
C3_InputCaptureFirst ==
    (pc = "loop" /\ app.receiving_input) =>
        \A key \in Keys, fault \in Faults :
            LET r == Processed(key, fault, "none") IN
            /\ r.exc = "none" /\ r.threw = "none"
            /\ LoopExcept(r.exc) = "continue"
            /\ OutsideFilter(r.app) = OutsideFilter(app)
            /\ r.hidden = cursor_hidden

\* q and r were typed into the search text and the loop still runs.
C3_Witness ==
    /\ pc = "loop" /\ app.receiving_input
    /\ app.search \in {<<"q">>, <<"r">>}
    /\ nkeys >= 2

\* C4 as stated: whenever the loop waits for a key the border has the
\* normal style.
C4_StyleReverts == pc = "loop" => app.main_style = main_style

\* C5 as stated: whatever a key's handler throws, the loop goes on and the
\* error flash was shown.
C5_EveryFailureFlashes ==
    pc = "loop" =>
        \A key \in Keys, fault \in Faults :
            LET r == Processed(key, fault, "none") IN
            r.threw # "none" =>
                /\ LoopExcept(r.exc) = "continue"
                /\ r.app.main_style = error_style

\* C5 amended: a failure of the open-in-editor key O is caught in its
\* handler and flashes the border, and the loop goes on unless the flash's
\* own redraw fails; what any other handler throws leaves process_key_event
\* as it is, without a flash: the loop ignores the re-entrant write, ends as
\* for a quit on StopIteration, and lets everything else escape.
C5_OnlyEditorFailureFlashes ==
    /\ pc = "loop" =>
         \A key \in CallKeys, fault \in Faults \ {"none"}, drawfault \in Faults :
            LET r == Processed(key, fault, drawfault) IN
            r.threw # "none" =>
                IF key = "O"
                THEN /\ r.app.main_style = error_style
                     /\ r.exc = drawfault
                     /\ drawfault = "none" => LoopExcept(r.exc) = "continue"
                ELSE /\ r.exc = fault
                     /\ r.app.main_style = app.main_style
                     /\ LoopExcept(r.exc) = "continue" <=> fault = "Reentrant"
    /\ (pc = "reported" /\ cause.at = "key") =>
         cause.exc \in {"RuntimeError", "Exception"}

\* The loop runs on after a failed O flashed the border.
C5_Witness == pc = "loop" /\ app.main_style = error_style /\ cursor_hidden

\* C6 as stated: no re-entrant write caused by a resize ends the session.
C6_ResizeNeverFatal == ~(Ended /\ cause.exc = "Reentrant")

\* C7: the cursor is hidden while the loop waits for a key and shown once
\* the session has ended, however it ended.
C7_CursorHiddenThenRestored ==
    /\ pc = "loop" => cursor_hidden
    /\ Ended => ~cursor_hidden

\* A failed O flashed the border, the flash's redraw failed too, and the
\* session ended with the cursor shown.
C7_Witness ==
    /\ pc = "reported" /\ cause.at = "key"
    /\ app.main_style = error_style
    /\ ~cursor_hidden

\* C8 as stated: a session that ended was ended by q, Q or r, or by a
\* failure whose diagnostic was printed.
C8_NoSilentEnd ==
    /\ pc \in {"teardown", "returned"} => cause.at = "quit"
    /\ pc = "reported" => diag

\* C9 as stated: no failure of explore(obj) reaches its caller.
C9_NothingRaisedToCaller == pc # "raised"

\* C10 as stated: while the loop runs the selection index is within the
\* active child list.
C10_IndexInBounds == pc = "loop" => InBounds(app)

\* No overlay is visible and the filter is not receiving input.
Normal(a) ==
    /\ ~a.receiving_input /\ ~a.help_visible
    /\ ~a.stack_visible /\ ~a.filter_visible

RECURSIVE Run(_, _)
\* The state after the keys of a sequence are processed one after another,
\* no callee failing.
Run(a, keys) ==
    IF keys = <<>> THEN a
    ELSE Run(process_key_event(a, Head(keys), "none", "none", TRUE).app, Tail(keys))

RECURSIVE AllDescend(_, _)
\* Every key of the sequence finds a selection it can descend into.
AllDescend(a, keys) ==
    \/ keys = <<>>
    \/ /\ CanDescend(a)
       /\ AllDescend(Run(a, <<Head(keys)>>), Tail(keys))

DescendKeys == {"l", "KEY_RIGHT", "KEY_ENTER"}
AscendKeys == {"h", "KEY_LEFT"}

\* C11: from a state of the loop with no overlay, n successful descends
\* (l, right, Enter) push n stack entries, and n ascends (h, left) after them
\* bring back the node, the selection index and the stack.
C11_PushPopSymmetry ==
    (pc = "loop" /\ Normal(app)) =>
        \A n \in 1..MaxDescends :
            \A ds \in [1..n -> DescendKeys], us \in [1..n -> AscendKeys] :
                AllDescend(app, ds) =>
                    LET down == Run(app, ds)
                        back == Run(down, us)
                    IN  /\ Len(down.stack) = Len(app.stack) + n
                        /\ Len(down.cached_obj) = Len(app.cached_obj) + n
                        /\ back.cached_obj = app.cached_obj
                        /\ back.index = app.index
                        /\ back.stack = app.stack

\* Below the root with the second child selected: two descends from here
\* and two ascends come back to index 1.
C11_Witness ==
    /\ pc = "loop" /\ Normal(app)
    /\ app.stack # <<>> /\ app.index = 1
    /\ AllDescend(app, <<"l", "KEY_RIGHT">>)
    /\ Len(Run(app, <<"l", "KEY_RIGHT">>).stack) = Len(app.stack) + 2
    /\ Run(app, <<"l", "KEY_RIGHT", "h", "KEY_LEFT">>).index = 1

\* The navigation stack holds, in order, the ancestors of the open node:
\* entry i is the node at depth i - 1 on the open node's path.
StackIsAncestors(a) ==
    /\ Len(a.stack) = Len(a.cached_obj)
    /\ a.stack = <<>> <=> a.cached_obj = <<>>
    /\ \A i \in 1..Len(a.stack) :
          a.stack[i].node = SubSeq(a.cached_obj, 1, i - 1)

\* The mode flags of the application.
ModeFlags(a) ==
    <<a.receiving_input, a.help_visible, a.stack_visible, a.filter_visible,
      a.state, a.overview_state, a.preview_state>>

\* C12 as stated: the stack is empty exactly at the root and as deep as the
\* open node is nested, and h or left pressed with an empty stack changes
\* neither the node, nor the selection index, nor a mode flag.
C12_AscendAtRootChangesNothing ==
    pc = "loop" =>
        /\ StackIsAncestors(app)
        /\ app.stack = <<>> =>
             \A key \in AscendKeys :
                LET r == Processed(key, "none", "none") IN
                /\ r.app.cached_obj = app.cached_obj
                /\ r.app.index = app.index
                /\ ModeFlags(r.app) = ModeFlags(app)

\* C12 amended: the same, for h or left pressed with an empty stack while
\* the filter is not receiving search input; the key then changes nothing
\* at all.
C12_AscendAtRootOutsideInput ==
    pc = "loop" =>
        /\ StackIsAncestors(app)
        /\ (app.stack = <<>> /\ ~app.receiving_input) =>
             \A key \in AscendKeys, fault \in Faults :
                LET r == Processed(key, fault, "none") IN
                /\ r.app = app
                /\ r.exc = "none"

\* Back at the root by a jump from the stack overlay, the last child
\* selected, the overlay still visible.
C12_Witness ==
    /\ pc = "loop" /\ ~app.receiving_input
    /\ app.stack = <<>> /\ app.cached_obj = <<>>
    /\ app.stack_visible /\ app.index = 2

\* C13: the stack overlay and the filter overlay are never both visible;
\* o pressed while the filter overlay is visible shows the stack overlay and
\* hides the filter overlay in the same step, and n does the converse.
C13_StackAndFilterExclusive ==
    /\ ~(app.stack_visible /\ app.filter_visible)
    /\ (pc = "loop" /\ ~app.receiving_input) =>
         /\ app.filter_visible =>
              LET r == Processed("o", "none", "none") IN
              r.app.stack_visible /\ ~r.app.filter_visible
         /\ app.stack_visible =>
              LET r == Processed("n", "none", "none") IN
              r.app.filter_visible /\ ~r.app.stack_visible

\* A search was committed in the filter overlay, and the stack overlay
\* was opened over it.
C13_Witness ==
    /\ pc = "loop" /\ ~app.receiving_input
    /\ app.committed # <<>>
    /\ app.stack_visible /\ ~app.filter_visible

\* C14 as stated: while the stack overlay is visible, the keys bound to
\* descend, ascend, the public/private toggle and the preview toggle change
\* neither the open node, nor the navigation stack, nor the view mode, nor
\* the preview mode.
C14_NavigationDisabledInStackView ==
    (pc = "loop" /\ app.stack_visible /\ ~app.receiving_input) =>
        \A key \in {"l", "KEY_RIGHT", "h", "KEY_LEFT", "[", "]", "{", "}"} :
            LET r == Processed(key, "none", "none") IN
            /\ r.app.cached_obj = app.cached_obj
            /\ r.app.stack = app.stack
            /\ r.app.state = app.state
            /\ r.app.preview_state = app.preview_state

MoveKeys == {"j", "k", "KEY_DOWN", "KEY_UP", "g", "G"}

C16_HelpOverlayKeys ==
    (pc = "loop" /\ app.help_visible /\ ~app.receiving_input) =>
        \A key \in Keys \ (QuitKeys \cup {"f"}), fault \in Faults :
            LET r == Processed(key, fault, "none")
                closed == [app EXCEPT !.help_visible = FALSE]
            IN
            CASE key \in {"?", "KEY_ESCAPE", "KEY_BACKSPACE"} ->
                   r.app = closed /\ r.exc = "none"
              [] key \in {"{", "}", "[", "]"} ->
                   /\ r.app = [app EXCEPT !.help_state = r.app.help_state]
                   /\ r.app.help_state # app.help_state
                   /\ r.exc = "none"
              [] key \in {"j", "k", "o", "n", "KEY_UP", "KEY_DOWN"} ->
                   r = process_key_event(closed, key, fault, "none", cursor_hidden)
              [] OTHER ->
                   r.app = app /\ r.exc = "none" /\ r.threw = "none"

\* The help overlay is open on its about pane, over the stack overlay, with
\* a callable selected: [ and { had the help pane to switch.
C16_Witness ==
    /\ pc = "loop" /\ app.help_visible /\ ~app.receiving_input
    /\ app.help_state = "about"
    /\ app.stack_visible
    /\ Callable(SelectedObj(app))
    /\ app.state = "public" /\ app.preview_state = "repr"

\* C17 as stated: while the loop runs, the preview mode is source only if
\* the selected object is callable.
C17_SourceOnlyForCallable ==
    pc = "loop" => (app.preview_state = "source" => Callable(SelectedObj(app)))

\* The overlays as they are while the filter receives search input.
InputShape(a) == a.filter_visible /\ ~a.stack_visible /\ ~a.help_visible

\* C18: whenever the filter is receiving search input the filter overlay is
\* visible and the stack and help overlays are hidden; only / pressed
\* outside the help overlay starts search input, and no key processed
\* during input capture changes the three overlays.
C18_InputShowsFilterOnly ==
    /\ app.receiving_input => InputShape(app)
    /\ pc = "loop" =>
         \A key \in Keys, fault \in Faults :
            LET r == Processed(key, fault, "none") IN
            r.app.receiving_input =>
                /\ InputShape(r.app)
                /\ ~app.receiving_input => (key = "/" /\ ~app.help_visible)

\* Below the root the filter receives search input; text was typed and
\* the search cursor moved back.
C18_Witness ==
    /\ pc = "loop" /\ app.receiving_input /\ InputShape(app)
    /\ app.cached_obj # <<>>
    /\ app.search # <<>> /\ app.cursor_pos < Len(app.search)

\* C19 as stated: once the session has ended the SIGWINCH handler is no
\* longer the application's draw, and no resize runs draw.
C19_HandlerEndsWithSession ==
    /\ Ended => handler # "draw"
    /\ ~late_draw
=============================================================================
